---- MODULE Spec2Model ----
(***************************************************************************)
(* Model of aca_entity_standardizer/run_tests.py: the phrase combinator    *)
(* (get_data_combinations), the candidate aggregators (run_entity_linking, *)
(* invoke_wikidata_api, get_wikidata_qids, run_wikidata_autocomplete), the *)
(* scorer (get_topk_accuracy) and the two runners (run_zero_shot,          *)
(* run_few_shot).                                                          *)
(*                                                                         *)
(* Python values are modelled as follows.                                  *)
(*   str   a sequence of one-character strings, so that split and join     *)
(*         are computed and not assumed                                    *)
(*   list  a sequence                                                      *)
(*   dict  a sequence of <<key, value>> pairs with distinct keys, in       *)
(*         insertion order (Python 3.7+ dict order)                        *)
(*   None  the string "None"                                               *)
(* An uncaught exception is recorded in exc and moves pc to "crashed".     *)
(***************************************************************************)
EXTENDS Integers, Sequences, FiniteSets, TLC

VARIABLES
    pc,              \* position of the running function
    exc,             \* name of the uncaught exception, "none" when there is none
    stdout,          \* what print() has written: a sequence of report records
    data,            \* get_data_combinations: parameter data (a list of str)
    combinations,    \* get_data_combinations: the returned list
    data_to_qid,     \* dict mention -> correct qid
    el_qids,         \* run_zero_shot: result of run_entity_linking(context='')
    wd_qids,         \* run_zero_shot: result of run_wikidata_autocomplete
    elctx_qids,      \* run_zero_shot: result of run_entity_linking(context='software')
    alg_qids,        \* get_topk_accuracy: parameter alg_qids
    total_mentions,  \* get_topk_accuracy: local total_mentions
    topk,            \* get_topk_accuracy: local topk, a 5-tuple
    pos,             \* get_topk_accuracy: number of mentions of the for loop already visited
    wd_table,        \* the autocomplete backend: query string -> list of ids
    workers,         \* run_wikidata_autocomplete: one get_wikidata_qids call per mention
    wd_results,      \* run_wikidata_autocomplete: what pool.map returned
    entity_to_eid,   \* run_few_shot: dict entity name -> entity id
    data_to_eid,     \* run_few_shot: dict mention -> correct entity id
    tech_sim_scores, \* run_few_shot: the standardizer's output, one ranked list per mention
    num_correct      \* run_few_shot: local num_correct

ctlVars   == <<pc, exc, stdout>>
combVars  == <<data, combinations>>
scoreVars == <<alg_qids, total_mentions, topk, pos>>
zsVars    == <<data_to_qid, el_qids, wd_qids, elctx_qids>>
wdVars    == <<wd_table, workers, wd_results>>
fsVars    == <<entity_to_eid, data_to_eid, tech_sim_scores, num_correct>>
vars      == <<ctlVars, combVars, scoreVars, zsVars, wdVars, fsVars>>

None == "None"
Idle == "idle"

(***************************************************************************)
(* Bounds of the model.                                                    *)
(***************************************************************************)
\* longest token list handed to get_data_combinations in SpecComb
MaxTokens == 3
\* most wrong identifiers placed in front of a ranked list (rank 10 and beyond needs 10)
MaxPad == 10
\* longest tail over the identifiers under test that follows the padding
MaxTail == 2

(***************************************************************************)
(* Python built-ins used by the code.                                      *)
(***************************************************************************)
RECURSIVE Join(_)
\* ' '.join(tokens)
Join(tokens) ==
    IF Len(tokens) = 0 THEN <<>>
    ELSE IF Len(tokens) = 1 THEN tokens[1]
    ELSE tokens[1] \o <<" ">> \o Join(Tail(tokens))

RECURSIVE SplitFrom(_, _, _)
\* scans s left to right; cur is the fragment being built, out the fragments cut so far
SplitFrom(s, cur, out) ==
    IF Len(s) = 0 THEN Append(out, cur)
    ELSE IF s[1] = " " THEN SplitFrom(Tail(s), <<>>, Append(out, cur))
    ELSE SplitFrom(Tail(s), Append(cur, s[1]), out)

\* s.split(' '): every single space separates, so adjacent spaces give '' fragments
Split(s) == SplitFrom(s, <<>>, <<>>)

\* d.keys() / iteration over a dict, in insertion order
DictKeys(d) == [i \in 1..Len(d) |-> d[i][1]]

\* k in d
DictHas(d, k) == \E i \in 1..Len(d) : d[i][1] = k

\* d.get(k, default)
DictGet(d, k, default) ==
    IF DictHas(d, k) THEN d[CHOOSE i \in 1..Len(d) : d[i][1] = k][2] ELSE default

\* d[k] = v: an existing key keeps its position, a new key goes last
DictSet(d, k, v) ==
    IF DictHas(d, k)
    THEN [i \in 1..Len(d) |-> IF d[i][1] = k THEN <<k, v>> ELSE d[i]]
    ELSE Append(d, <<k, v>>)

\* x in list
InList(x, list) == \E i \in 1..Len(list) : list[i] = x

(***************************************************************************)
(* get_data_combinations                                                   *)
(***************************************************************************)
RECURSIVE LeftTruncations(_, _, _)
\* for i in range(1,len(data),1): combinations.append(' '.join(data[:-i]))
LeftTruncations(tokens, i, acc) ==
    IF i >= Len(tokens) THEN acc
    ELSE LeftTruncations(tokens, i + 1,
                         Append(acc, Join(SubSeq(tokens, 1, Len(tokens) - i))))

RECURSIVE RightTruncations(_, _, _)
\* for i in range(1,len(data),1): combinations.append(' '.join(data[i:]))
RightTruncations(tokens, i, acc) ==
    IF i >= Len(tokens) THEN acc
    ELSE RightTruncations(tokens, i + 1,
                          Append(acc, Join(SubSeq(tokens, i + 1, Len(tokens)))))

\* the order of the commented-out docstring: right truncations before left ones
GetDataCombinationsRightFirst(tokens) ==
    LeftTruncations(tokens, 1, RightTruncations(tokens, 1, <<Join(tokens)>>))

GetDataCombinations(tokens) ==
    RightTruncations(tokens, 1, LeftTruncations(tokens, 1, <<Join(tokens)>>))

(***************************************************************************)
(* get_topk_accuracy                                                       *)
(***************************************************************************)
\* the rank limits of the buckets: if i <= 0, if i <= 2, if i <= 4, if i <= 9
Top1Rank == 0
Top3Rank == 2
Top5Rank == 4
Top10Rank == 9

\* buckets that exclude each other: a hit is counted in the narrowest bucket only
BucketHitExclusive(t, i) ==
    << t[1] + (IF i <= Top1Rank THEN 1 ELSE 0),
       t[2] + (IF Top1Rank < i /\ i <= Top3Rank THEN 1 ELSE 0),
       t[3] + (IF Top3Rank < i /\ i <= Top5Rank THEN 1 ELSE 0),
       t[4] + (IF Top5Rank < i /\ i <= Top10Rank THEN 1 ELSE 0),
       t[5] + 1 >>

\* the body of "if qid == correct_qid": the tuple rebuilt for a hit at rank i (0-based)
BucketHit(t, i) ==
    << t[1] + (IF i <= Top1Rank THEN 1 ELSE 0),
       t[2] + (IF i <= Top3Rank THEN 1 ELSE 0),
       t[3] + (IF i <= Top5Rank THEN 1 ELSE 0),
       t[4] + (IF i <= Top10Rank THEN 1 ELSE 0),
       t[5] + 1 >>

RECURSIVE ScanQidsNoBreak(_, _, _, _)
\* the scan without its break: every occurrence of the correct id is bucketed
ScanQidsNoBreak(t, qids, correct_qid, i) ==
    IF i >= Len(qids) THEN t
    ELSE IF qids[i + 1] = correct_qid
         THEN ScanQidsNoBreak(BucketHit(t, i), qids, correct_qid, i + 1)
         ELSE ScanQidsNoBreak(t, qids, correct_qid, i + 1)

RECURSIVE ScanQids(_, _, _, _)
\* for i, qid in enumerate(qids): if qid == correct_qid: ...; break
ScanQids(t, qids, correct_qid, i) ==
    IF i >= Len(qids) THEN t
    ELSE IF qids[i + 1] = correct_qid THEN BucketHit(t, i)
    ELSE ScanQids(t, qids, correct_qid, i + 1)

\* one iteration of "for mention in data_to_qid"
ScoreMention(t, d2q, alg, p) ==
    LET mention     == d2q[p][1]
        correct_qid == d2q[p][2]
        qids        == DictGet(alg, mention, None)
    IN  \* "if not qids": None (no entry) or an empty list
        IF ~DictHas(alg, mention) THEN t
        ELSE IF qids = <<>> THEN t
        ELSE ScanQids(t, qids, correct_qid, 0)

RECURSIVE ScoreFrom(_, _, _, _)
\* the whole for loop, from the p-th mention on
ScoreFrom(t, d2q, alg, p) ==
    IF p > Len(d2q) THEN t
    ELSE ScoreFrom(ScoreMention(t, d2q, alg, p), d2q, alg, p + 1)

\* f"{c/n:.2f}" in hundredths: the quotient rounded to two decimals. A tie needs n to
\* be a multiple of 8; c/8 is exact in binary and Python rounds it to the even digit
Fmt2(c, n) ==
    LET q == (100 * c) \div n
        r == (100 * c) % n
    IN  IF 2 * r < n THEN q
        ELSE IF 2 * r > n THEN q + 1
        ELSE IF q % 2 = 0 THEN q ELSE q + 1

\* the ratios taken over the mentions that have a prediction
ReportLineOverPredicted(t, n, alg) ==
    LET m == IF Len(alg) = 0 THEN 1 ELSE Len(alg)
    IN  [top1 |-> Fmt2(t[1], m), top3 |-> Fmt2(t[2], m), top5 |-> Fmt2(t[3], m),
         top10 |-> Fmt2(t[4], m), topinf |-> Fmt2(t[5], m), hits |-> t[5]]

\* the line print() writes; alg is not read
ReportLine(t, n, alg) ==
    [top1 |-> Fmt2(t[1], n), top3 |-> Fmt2(t[2], n), top5 |-> Fmt2(t[3], n),
     top10 |-> Fmt2(t[4], n), topinf |-> Fmt2(t[5], n), hits |-> t[5]]

ZeroTopk == <<0, 0, 0, 0, 0>>

(***************************************************************************)
(* run_entity_linking                                                      *)
(***************************************************************************)
RECURSIVE Seconds(_)
\* for j, candidate in enumerate(cdata): qid = candidate[1]
Seconds(cdata) ==
    IF Len(cdata) = 0 THEN <<>> ELSE <<cdata[1][2]>> \o Seconds(Tail(cdata))

RECURSIVE CollectCandidates(_, _, _)
\* for i in candidates: ... ; candidates is a dict id -> top_k_entities, the text
\* already decoded into its list of (score, qid) pairs
CollectCandidates(candidates, d2q, acc) ==
    IF Len(candidates) = 0 THEN acc
    ELSE LET i       == candidates[1][1]
             mention == d2q[i + 1][1]
             old     == DictGet(acc, mention, <<>>)
             cdata   == candidates[1][2]
         IN  CollectCandidates(Tail(candidates), d2q,
                               DictSet(acc, mention, old \o Seconds(cdata)))

\* response.ok is FALSE when requests.post or response.json() raises; else
\* response.candidates is the decoded json, a dict from ids among 0..n-1 to
\* top_k_entities
RunEntityLinking(d2q, response) ==
    IF ~response.ok THEN <<>>
    ELSE CollectCandidates(response.candidates, d2q, <<>>)

(***************************************************************************)
(* Inputs.                                                                 *)
(***************************************************************************)
Nginx == <<"n", "g", "i", "n", "x">>
Redis == <<"r", "e", "d", "i", "s">>

\* the identifiers a test set names as correct, and one that is never correct
Qids == {"Q1", "Q2"}
WrongQid == "Q9"

\* the words a mention splits into: '' comes from two adjacent spaces
TokenUniverse == {<<"a">>, <<"b">>, <<"a", "b">>, <<>>}
TokenLists == UNION {[1..k -> TokenUniverse] : k \in 0..MaxTokens}

\* test sets of zero, one and two mentions, as loaded from the test file; two
\* mentions have different correct identifiers or the same one
TestSets ==
    { <<>>,
      << <<Nginx, "Q1">> >>,
      << <<Nginx, "Q1">>, <<Redis, "Q2">> >>,
      << <<Nginx, "Q1">>, <<Redis, "Q1">> >> }

\* ranked lists: k wrong identifiers, then up to MaxTail identifiers under test
RankedLists ==
    {[i \in 1..k |-> WrongQid] \o t :
        k \in 0..MaxPad, t \in UNION {[1..m -> Qids] : m \in 0..MaxTail}}

\* top_k_entities of one record: (score, qid) pairs in the backend's order
TopKEntities == {[i \in 1..Len(l) |-> <<9, l[i]>>] : l \in RankedLists}

RECURSIVE SortedSeq(_)
SortedSeq(S) ==
    IF S = {} THEN <<>>
    ELSE LET m == CHOOSE x \in S : \A y \in S : x <= y
         IN  <<m>> \o SortedSeq(S \ {m})

\* what the linking backend may do with a batch of n mentions: fail, or answer for
\* any subset of the ids 0..n-1 with a top_k_entities of topks
ELResponses(n, topks) ==
    {[ok |-> FALSE, candidates |-> <<>>]}
    \cup UNION {{[ok |-> TRUE,
                  candidates |-> [j \in 1..Cardinality(S) |->
                                     <<SortedSeq(S)[j], f[SortedSeq(S)[j]]>>]] :
                    f \in [S -> topks]} :
                 S \in SUBSET (0..(n - 1))}

\* line 53: the except branch prints the error, nothing else is printed
EntityLinkingPrints(response) ==
    IF response.ok THEN stdout
    ELSE Append(stdout, [error |-> "Error querying entity linking url"])

\* the variables of the functions a specification does not run
IdleComb  == data = Idle /\ combinations = Idle
IdleScore == alg_qids = Idle /\ total_mentions = Idle /\ topk = Idle /\ pos = Idle
IdleZs    == data_to_qid = Idle /\ el_qids = Idle /\ wd_qids = Idle /\ elctx_qids = Idle
IdleWd    == wd_table = Idle /\ workers = Idle /\ wd_results = Idle
IdleFs    == /\ entity_to_eid = Idle /\ data_to_eid = Idle
             /\ tech_sim_scores = Idle /\ num_correct = Idle

(***************************************************************************)
(* SpecComb: get_data_combinations applied to every token list.            *)
(***************************************************************************)
InitComb ==
    /\ pc = "comb_call"
    /\ exc = "none"
    /\ stdout = <<>>
    /\ data \in TokenLists
    /\ combinations = Idle
    /\ IdleScore
    /\ IdleZs
    /\ IdleWd
    /\ IdleFs

GetDataCombinationsCall ==
    /\ pc = "comb_call"
    /\ combinations' = GetDataCombinations(data)
    /\ pc' = "comb_returned"
    /\ UNCHANGED <<exc, stdout, data, scoreVars, zsVars, wdVars, fsVars>>

NextComb == GetDataCombinationsCall

SpecComb == InitComb /\ [][NextComb]_vars

(***************************************************************************)
(* SpecScore: one strategy pass of run_zero_shot, lines 229-233: the       *)
(* entity-linking call, then get_topk_accuracy one mention at a time.      *)
(***************************************************************************)
InitScore ==
    /\ pc = "el_call"
    /\ exc = "none"
    /\ stdout = <<>>
    /\ data_to_qid \in TestSets
    /\ el_qids = Idle
    /\ wd_qids = Idle
    /\ elctx_qids = Idle
    /\ IdleComb
    /\ IdleScore
    /\ IdleWd
    /\ IdleFs

\* el_qids = run_entity_linking(data_to_qid, context='')
EntityLinkingCall ==
    /\ pc = "el_call"
    /\ \E response \in ELResponses(Len(data_to_qid), TopKEntities) :
           /\ el_qids' = RunEntityLinking(data_to_qid, response)
           /\ stdout' = EntityLinkingPrints(response)
    /\ pc' = "topk_call"
    /\ UNCHANGED <<exc, data_to_qid, wd_qids, elctx_qids,
                   combVars, scoreVars, wdVars, fsVars>>

\* get_topk_accuracy(data_to_qid, el_qids): lines 183-184
TopkEnter ==
    /\ pc = "topk_call"
    /\ alg_qids' = el_qids
    /\ total_mentions' = Len(data_to_qid)
    /\ topk' = ZeroTopk
    /\ pos' = 0
    /\ pc' = "topk_loop"
    /\ UNCHANGED <<exc, stdout, zsVars, combVars, wdVars, fsVars>>

\* one iteration of the for loop, lines 185-201
TopkMention ==
    /\ pc = "topk_loop"
    /\ pos < Len(data_to_qid)
    /\ topk' = ScoreMention(topk, data_to_qid, alg_qids, pos + 1)
    /\ pos' = pos + 1
    /\ UNCHANGED <<ctlVars, alg_qids, total_mentions, zsVars, combVars, wdVars, fsVars>>

\* line 203: the division raises ZeroDivisionError when there is no mention
TopkPrint ==
    /\ pc = "topk_loop"
    /\ pos = Len(data_to_qid)
    /\ IF total_mentions = 0
       THEN /\ exc' = "ZeroDivisionError"
            /\ pc' = "crashed"
            /\ UNCHANGED stdout
       ELSE /\ stdout' = Append(stdout, ReportLine(topk, total_mentions, alg_qids))
            /\ pc' = "topk_returned"
            /\ UNCHANGED exc
    /\ UNCHANGED <<scoreVars, zsVars, combVars, wdVars, fsVars>>

NextScore ==
    \/ EntityLinkingCall
    \/ TopkEnter
    \/ TopkMention
    \/ TopkPrint

SpecScore == InitScore /\ [][NextScore]_vars

(***************************************************************************)
(* Properties of get_data_combinations (SpecComb).                         *)
(***************************************************************************)
\* C5: for a token list t of n >= 1 tokens, get_data_combinations returns the full
\* phrase, then the n-1 left truncations t[0..n-1-i], i = 1..n-1, then the n-1 right
\* truncations t[i..n-1], i = 1..n-1: 2n-1 entries for n > 1 and one entry for n = 1.
\* Each entry is compared as a phrase and, split again on ' ', as a token list.
C5_CombinationsShape ==
    (pc = "comb_returned" /\ Len(data) >= 1) =>
        LET n == Len(data)
        IN  /\ Len(combinations) = (IF n > 1 THEN 2 * n - 1 ELSE 1)
            /\ combinations[1] = Join(data)
            /\ Split(combinations[1]) = data
            /\ \A i \in 1..(n - 1) :
                   /\ combinations[1 + i] = Join(SubSeq(data, 1, n - i))
                   /\ Split(combinations[1 + i]) = SubSeq(data, 1, n - i)
                   /\ combinations[n + i] = Join(SubSeq(data, i + 1, n))
                   /\ Split(combinations[n + i]) = SubSeq(data, i + 1, n)

\* three tokens give five phrases: 'a b ab', 'a b', 'a', 'b ab', 'ab'
C5_Witness ==
    /\ pc = "comb_returned"
    /\ data = << <<"a">>, <<"b">>, <<"a", "b">> >>
    /\ combinations = << <<"a", " ", "b", " ", "a", "b">>, <<"a", " ", "b">>, <<"a">>,
                         <<"b", " ", "a", "b">>, <<"a", "b">> >>

(***************************************************************************)
(* Properties of get_topk_accuracy (SpecScore).                            *)
(***************************************************************************)
\* the 1-based positions of the correct identifier in the p-th mention's ranked list
Occurrences(p) ==
    LET qids == DictGet(alg_qids, data_to_qid[p][1], <<>>)
    IN  {i \in 1..Len(qids) : qids[i] = data_to_qid[p][2]}

\* the increments the claim gives for a first occurrence at 0-based rank i
BucketsOfRank(i) ==
    IF i = 0 THEN <<1, 1, 1, 1, 1>>
    ELSE IF i \in 1..2 THEN <<0, 1, 1, 1, 1>>
    ELSE IF i \in 3..4 THEN <<0, 0, 1, 1, 1>>
    ELSE IF i \in 5..9 THEN <<0, 0, 0, 1, 1>>
    ELSE <<0, 0, 0, 0, 1>>

\* C1: scoring one mention adds to the five counters exactly the increments of the rank
\* of the FIRST occurrence of the correct identifier in its ranked list (rank 0: all
\* five; 1..2: top-3 and wider; 3..4: top-5 and wider; 5..9: top-10 and top-inf; 10 and
\* beyond: top-inf only), and adds nothing when the identifier does not occur; so no
\* counter grows by more than one per mention, whatever duplicates the list holds.
C1_BucketsByFirstRank ==
    [][(pc = "topk_loop" /\ pc' = "topk_loop") =>
          LET occ == Occurrences(pos + 1)
              first == CHOOSE i \in occ : \A j \in occ : i <= j
          IN  IF occ = {}
              THEN topk' = topk
              ELSE \A k \in 1..5 : topk'[k] = topk[k] + BucketsOfRank(first - 1)[k]
      ]_vars

\* the first mention's correct identifier stands at rank 4 and again at rank 5: it was
\* counted once, into top-5, top-10 and top-inf only
C1_Witness ==
    /\ pc = "topk_loop"
    /\ pos = 1
    /\ Occurrences(1) = {5, 6}
    /\ topk = <<0, 0, 1, 1, 1>>

\* C2: at every point of a scoring pass top-1 <= top-3 <= top-5 <= top-10 <= top-inf <=
\* the number of mentions scored so far, and no counter decreases from one scored
\* mention to the next.
C2_TopkMonotone ==
    /\ [](pc \in {"topk_loop", "topk_returned"} =>
            /\ 0 <= topk[1] /\ topk[1] <= topk[2] /\ topk[2] <= topk[3]
            /\ topk[3] <= topk[4] /\ topk[4] <= topk[5] /\ topk[5] <= pos)
    /\ [][pc = "topk_loop" => \A k \in 1..5 : topk'[k] >= topk[k]]_vars

\* two mentions scored, one hit at rank 0 and one at rank 10
C2_Witness ==
    /\ pc = "topk_loop"
    /\ pos = 2
    /\ Occurrences(1) = {1}
    /\ 11 \in Occurrences(2) /\ \A i \in Occurrences(2) : i >= 11
    /\ topk = <<1, 1, 1, 1, 2>>

\* the mentions whose correct identifier stands among the first k of their ranked list
HitsWithin(k) ==
    {p \in 1..Len(data_to_qid) : \E i \in Occurrences(p) : i <= k}

\* the mentions whose correct identifier stands anywhere in their ranked list
HitsAnywhere == {p \in 1..Len(data_to_qid) : Occurrences(p) # {}}

\* r hundredths is c/n rounded to two decimals
IsRounded(r, c, n) == 2 * (100 * c - r * n) <= n /\ 2 * (r * n - 100 * c) <= n

\* C3: the five ratios printed are the hit counts divided by len(correct), whatever
\* predicted holds; a mention with no entry in predicted, or an empty list, is in no
\* hit count.
C3_DenominatorIsLenCorrect ==
    pc = "topk_returned" =>
        LET n    == Len(data_to_qid)
            line == stdout[Len(stdout)]
        IN  /\ total_mentions = n
            /\ IsRounded(line.top1, Cardinality(HitsWithin(1)), n)
            /\ IsRounded(line.top3, Cardinality(HitsWithin(3)), n)
            /\ IsRounded(line.top5, Cardinality(HitsWithin(5)), n)
            /\ IsRounded(line.top10, Cardinality(HitsWithin(10)), n)
            /\ IsRounded(line.topinf, Cardinality(HitsAnywhere), n)
            /\ line.hits = Cardinality(HitsAnywhere)
            /\ \A p \in 1..n :
                   (~DictHas(alg_qids, data_to_qid[p][1])
                    \/ DictGet(alg_qids, data_to_qid[p][1], <<>>) = <<>>)
                   => p \notin HitsAnywhere

\* correct = {nginx: Q1, redis: Q2} and predicted = {nginx: [Q1]}, or the backend
\* answering [(0.9, 'Q1')] for nginx and [] for redis: every ratio printed is 0.50
C3_Witness ==
    /\ pc = "topk_returned"
    /\ data_to_qid = << <<Nginx, "Q1">>, <<Redis, "Q2">> >>
    /\ alg_qids \in { << <<Nginx, <<"Q1">> >> >>,
                      << <<Nginx, <<"Q1">> >>, <<Redis, <<>> >> >> }
    /\ stdout = << [top1 |-> 50, top3 |-> 50, top5 |-> 50, top10 |-> 50,
                    topinf |-> 50, hits |-> 1] >>

(***************************************************************************)
(* invoke_wikidata_api, get_wikidata_qids                                  *)
(***************************************************************************)
\* a response that is not successful still read for its search list
InvokeWikidataApiIgnoresSuccess(table, query, ok) == DictGet(table, query, <<>>)

\* ok is FALSE when requests.get or response.json() raises, or when
\* candidates['success'] != 1: qids stays []. Otherwise the ids of
\* candidates['search'], which the backend table gives for the query
InvokeWikidataApi(table, query, ok) ==
    IF ok THEN DictGet(table, query, <<>>) ELSE <<>>

\* the position behind the last item whose list is not longer than v's
InsertPoint(sorted, v) ==
    LET le == {i \in 1..Len(sorted) : Len(sorted[i][2]) <= Len(v)}
    IN  IF le = {} THEN 0 ELSE CHOOSE i \in le : \A j \in le : j <= i

RECURSIVE SortedByLenFrom(_, _)
SortedByLenFrom(items, sorted) ==
    IF Len(items) = 0 THEN sorted
    ELSE LET at == InsertPoint(sorted, items[1][2])
         IN  SortedByLenFrom(Tail(items),
                 SubSeq(sorted, 1, at) \o <<items[1]>> \o SubSeq(sorted, at + 1, Len(sorted)))

\* the fragments left in the order they were found
SortedByLenOmitted(d) == d

\* sorted(data_to_qids.items(), key=lambda item: len(item[1])): stable, ascending
SortedByLen(d) == SortedByLenFrom(d, <<>>)

\* the locals of one get_wikidata_qids(data) call before its first query
NewWorker(mention) ==
    [data |-> mention, stage |-> "exact", qids |-> <<>>, fragments |-> <<>>,
     data_to_qids |-> <<>>, valid_data |-> <<>>, combinations |-> <<>>, k |-> 0,
     log |-> <<>>, wd_qids |-> <<>>]

\* the argument of the next invoke_wikidata_api call
CurrentQuery(w) ==
    IF w.stage = "exact" THEN w.data
    ELSE IF w.stage = "frags" THEN w.fragments[w.k + 1]
    ELSE w.combinations[w.k + 1]

\* get_wikidata_qids from one invoke_wikidata_api call, answered r, up to the next
\* one: stage "exact" is line 124, "frags" the loop of lines 130-133, "combos" the
\* loop of lines 137-138, "valid" the loop of lines 145-146, "done" the return
WorkerAfter(w, r) ==
    LET k2 == w.k + 1
    IN  IF w.stage = "exact"
        THEN [w EXCEPT !.qids = @ \o r, !.fragments = Split(w.data),
                       !.stage = "frags", !.k = 0]
        ELSE IF w.stage = "frags"
        THEN LET d2 == IF r # <<>> THEN DictSet(w.data_to_qids, w.fragments[k2], r)
                       ELSE w.data_to_qids
             IN  IF k2 < Len(w.fragments)
                 THEN [w EXCEPT !.data_to_qids = d2, !.k = k2]
                 ELSE [w EXCEPT !.data_to_qids = d2, !.k = 0, !.stage = "combos",
                                !.combinations = GetDataCombinations(w.fragments)]
        ELSE IF w.stage = "combos"
        THEN IF k2 < Len(w.combinations)
             THEN [w EXCEPT !.qids = @ \o r, !.k = k2]
             ELSE LET sorted == SortedByLen(w.data_to_qids)
                  IN  [w EXCEPT !.qids = @ \o r, !.k = 0, !.stage = "valid",
                                !.data_to_qids = sorted,
                                !.valid_data = DictKeys(sorted),
                                !.combinations = GetDataCombinations(DictKeys(sorted))]
        ELSE IF k2 < Len(w.combinations)
             THEN [w EXCEPT !.qids = @ \o r, !.k = k2]
             ELSE [w EXCEPT !.qids = @ \o r, !.k = k2, !.stage = "done",
                            !.wd_qids = << <<w.data, w.qids \o r>> >>]

\* one invoke_wikidata_api call of the worker and what follows it
WorkerStep(w, table, ok) ==
    LET q == CurrentQuery(w)
        r == InvokeWikidataApi(table, q, ok)
    IN  [WorkerAfter(w, r) EXCEPT !.log = Append(w.log, [query |-> q, ok |-> ok, result |-> r])]

RECURSIVE WorkerRun(_, _, _)
\* get_wikidata_qids run to its return, its calls answered as oks says, in order
WorkerRun(w, table, oks) ==
    IF w.stage = "done" THEN w
    ELSE WorkerRun(WorkerStep(w, table, oks[1]), table, Tail(oks))

(***************************************************************************)
(* run_wikidata_autocomplete                                               *)
(***************************************************************************)
\* pool.map handing back as soon as one call has returned
SomeWorkerDone(ws) == \E i \in 1..Len(ws) : ws[i].stage = "done"

\* pool.map blocks until every call has returned
AllWorkersDone(ws) == \A i \in 1..Len(ws) : ws[i].stage = "done"

RECURSIVE MergeResults(_, _)
\* {k:v for item in wd_results for k,v in item.items()}
MergeResults(results, acc) ==
    IF Len(results) = 0 THEN acc
    ELSE MergeResults(Tail(results),
             IF Len(results[1]) = 0 THEN acc
             ELSE DictSet(acc, results[1][1][1], results[1][1][2]))

(***************************************************************************)
(* SpecWD: the autocomplete strategy of run_zero_shot, lines 235-239:      *)
(* run_wikidata_autocomplete with one get_wikidata_qids call per mention,  *)
(* the calls interleaved query by query, then get_topk_accuracy.           *)
(***************************************************************************)
StrA   == <<"a">>
StrB   == <<"b">>
StrC   == <<"c">>
StrAB  == <<"a", " ", "b">>
StrBA  == <<"b", " ", "a">>
StrAA  == <<"a", " ", "a">>
StrCAB == <<"c", " ", "a", " ", "b">>
StrA_B == <<"a", " ", " ", "b">>

\* backends: what each query finds; a query not listed finds nothing
WdTables ==
    { \* 'b' is the more specific fragment, so the valid fragments are re-ordered
      << <<StrA, <<"Q1", "Q2">> >>, <<StrB, <<"Q3">> >>, <<StrAB, <<"Q4">> >>,
         <<StrBA, <<"Q3", "Q1">> >> >>,
      \* both fragments find one candidate, the same one
      << <<StrA, <<"Q1">> >>, <<StrB, <<"Q1">> >>, <<StrC, <<"Q2">> >> >>,
      \* every fragment finds one candidate of its own
      << <<StrA, <<"Q3">> >>, <<StrB, <<"Q1">> >>, <<StrC, <<"Q2">> >> >>,
      \* no fragment finds anything; the empty query does
      << << <<>>, <<"Q2">> >> >> }

\* test sets of the autocomplete strategy
WdTestSets ==
    { <<>>,
      << <<StrAB, "Q1">>, <<StrB, "Q3">> >>,
      << <<StrAA, "Q1">>, <<StrA, "Q2">> >>,
      << <<StrA_B, "Q4">> >>,
      << <<StrCAB, "Q4">> >> }

InitWD ==
    /\ pc = "wd_call"
    /\ exc = "none"
    /\ stdout = <<>>
    /\ data_to_qid \in WdTestSets
    /\ el_qids = Idle
    /\ wd_qids = Idle
    /\ elctx_qids = Idle
    /\ wd_table \in WdTables
    /\ workers = Idle
    /\ wd_results = Idle
    /\ IdleComb
    /\ IdleScore
    /\ IdleFs

\* line 165, the dispatch: one get_wikidata_qids call per key of data_to_qid
PoolMap ==
    /\ pc = "wd_call"
    /\ workers' = [i \in 1..Len(data_to_qid) |-> NewWorker(data_to_qid[i][1])]
    /\ pc' = "wd_map"
    /\ UNCHANGED <<exc, stdout, zsVars, wd_table, wd_results, combVars, scoreVars, fsVars>>

\* one call of invoke_wikidata_api by the i-th get_wikidata_qids call; the backend
\* answers, or the call fails
WorkerQuery ==
    /\ pc = "wd_map"
    /\ \E i \in DOMAIN workers :
           /\ workers[i].stage # "done"
           /\ \E ok \in BOOLEAN :
                  workers' = [workers EXCEPT ![i] = WorkerStep(@, wd_table, ok)]
    /\ UNCHANGED <<ctlVars, zsVars, wd_table, wd_results, combVars, scoreVars, fsVars>>

\* lines 165-169: pool.map returns the results in the order of the mentions, and they
\* are merged into one dict
PoolJoin ==
    /\ pc = "wd_map"
    /\ AllWorkersDone(workers)
    /\ wd_results' = [i \in 1..Len(workers) |-> workers[i].wd_qids]
    /\ wd_qids' = MergeResults(wd_results', <<>>)
    /\ pc' = "wd_returned"
    /\ UNCHANGED <<exc, stdout, data_to_qid, el_qids, elctx_qids, wd_table, workers,
                   combVars, scoreVars, fsVars>>

\* get_topk_accuracy run from its first line to its print
GetTopkAccuracy(d2q, alg, next) ==
    IF Len(d2q) = 0
    THEN /\ exc' = "ZeroDivisionError"
         /\ pc' = "crashed"
         /\ UNCHANGED stdout
    ELSE /\ stdout' = Append(stdout,
                             ReportLine(ScoreFrom(ZeroTopk, d2q, alg, 1), Len(d2q), alg))
         /\ pc' = next
         /\ UNCHANGED exc

\* line 239: get_topk_accuracy(data_to_qid, wd_qids)
TopkWd ==
    /\ pc = "wd_returned"
    /\ GetTopkAccuracy(data_to_qid, wd_qids, "wd_scored")
    /\ UNCHANGED <<zsVars, wdVars, combVars, scoreVars, fsVars>>

NextWD ==
    \/ PoolMap
    \/ WorkerQuery
    \/ PoolJoin
    \/ TopkWd

SpecWD == InitWD /\ [][NextWD]_vars

(***************************************************************************)
(* Properties of the autocomplete strategy (SpecWD).                       *)
(***************************************************************************)
RECURSIVE FlattenResults(_)
\* the candidates of the logged sub-queries, one after the other
FlattenResults(entries) ==
    IF Len(entries) = 0 THEN <<>>
    ELSE entries[1].result \o FlattenResults(Tail(entries))

\* the logged sub-queries of a finished call that add to the ranked list: the
\* exact-mention query and the combination queries, not the per-token queries
Contributing(w) ==
    <<w.log[1]>> \o SubSeq(w.log, Len(w.fragments) + 2, Len(w.log))

\* the logged per-token queries of a finished call
PerToken(w) == SubSeq(w.log, 2, Len(w.fragments) + 1)

\* the number of phrases get_data_combinations makes of m tokens
NumCombinations(m) == IF m > 1 THEN 2 * m - 1 ELSE 1

DoneWorkers == {i \in DOMAIN workers : workers[i].stage = "done"}

\* C6: the ranked list of a mention is the concatenation of the candidates of the
\* exact-mention query, then of each combination of all its tokens, then of each
\* combination of the valid fragments taken ascending by candidate count; every
\* sub-query's candidates are kept as answered, nothing is removed, and the per-token
\* answers only select and order the valid fragments.
C6_RankedListIsConcatenation ==
    pc \in {"wd_map", "wd_returned", "wd_scored"} =>
        \A i \in DoneWorkers :
            LET w     == workers[i]
                frs   == w.fragments
                valid == w.valid_data
                tok   == PerToken(w)
                found == {j \in 1..Len(frs) : tok[j].result # <<>>}
                count(f) ==
                    LET last == CHOOSE j \in found :
                                    /\ frs[j] = f
                                    /\ \A j2 \in found : frs[j2] = f => j2 <= j
                    IN  Len(tok[last].result)
            IN  /\ Join(frs) = w.data
                /\ \A j \in 1..Len(frs) : \A c \in 1..Len(frs[j]) : frs[j][c] # " "
                /\ [j \in 1..Len(w.log) |-> w.log[j].query]
                       = <<w.data>> \o frs \o GetDataCombinations(frs)
                                    \o GetDataCombinations(valid)
                /\ {valid[j] : j \in 1..Len(valid)} = {frs[j] : j \in found}
                /\ \A j1, j2 \in 1..Len(valid) :
                       j1 < j2 => /\ valid[j1] # valid[j2]
                                  /\ count(valid[j1]) <= count(valid[j2])
                /\ w.qids = FlattenResults(Contributing(w))
                /\ w.wd_qids = << <<w.data, w.qids>> >>

\* 'a b' with every query answered: 'b' finds fewer candidates than 'a' and comes
\* first among the valid fragments; Q4, Q1, Q2 and Q3 are all listed more than once
C6_Witness ==
    /\ pc = "wd_map"
    /\ Len(workers) >= 1
    /\ workers[1].stage = "done"
    /\ workers[1].data = StrAB
    /\ workers[1].valid_data = <<StrB, StrA>>
    /\ workers[1].qids = <<"Q4", "Q4", "Q1", "Q2", "Q3", "Q3", "Q1", "Q3", "Q1", "Q2">>

\* C7 as stated: whatever sub-queries fail, the call returns an entry for the mention
\* and the entry holds the candidates of every sub-query that succeeded.
C7_EverySucceededQueryContributes ==
    pc \in {"wd_map", "wd_returned", "wd_scored"} =>
        \A i \in DoneWorkers :
            LET w == workers[i]
            IN  /\ w.wd_qids = << <<w.data, w.qids>> >>
                /\ \A j \in 1..Len(w.log) :
                       w.log[j].ok =>
                           \A c \in 1..Len(w.log[j].result) :
                               InList(w.log[j].result[c], w.qids)

\* C7 amended: a failed sub-query is an empty candidate list for that sub-query and
\* nothing else: no exception leaves the call, every sub-query is answered with the
\* backend's candidates when it succeeds and with the empty list when it fails, every
\* combination query of the tokens and of the valid fragments is still issued, and the
\* entry returned is the concatenation, in order, of the candidates of the exact and
\* combination sub-queries (those of the per-token queries are not part of it).
C7_FailureIsEmptyList ==
    pc \in {"wd_map", "wd_returned", "wd_scored"} =>
        /\ exc = "none"
        /\ \A i \in DOMAIN workers :
               \A j \in 1..Len(workers[i].log) :
                   LET e == workers[i].log[j]
                   IN  e.result = IF e.ok THEN DictGet(wd_table, e.query, <<>>) ELSE <<>>
        /\ \A i \in DoneWorkers :
               LET w == workers[i]
               IN  /\ Len(w.log) = 1 + Len(w.fragments)
                                     + NumCombinations(Len(w.fragments))
                                     + NumCombinations(Len(w.valid_data))
                   /\ w.wd_qids = << <<w.data, FlattenResults(Contributing(w))>> >>

\* a finished call whose exact query and one per-token query failed, and whose entry
\* still holds candidates of a later sub-query
C7_Witness ==
    /\ pc = "wd_map"
    /\ \E i \in DoneWorkers :
           LET w == workers[i]
           IN  /\ ~w.log[1].ok
               /\ \E j \in 2..(Len(w.fragments) + 1) :
                      ~w.log[j].ok /\ DictGet(wd_table, w.log[j].query, <<>>) # <<>>
               /\ \E j \in (Len(w.fragments) + 2)..Len(w.log) :
                      w.log[j].ok /\ w.log[j].result # <<>>
               /\ w.qids # <<>>

\* C10: scoring of the autocomplete strategy starts only after every mention's call
\* has returned, and the merged mapping then has exactly one entry per mention of the
\* test set, in whatever order the calls were interleaved; the entry is what
\* get_wikidata_qids, run alone on that mention with the same answers, returns.
C10_JoinBeforeScoring ==
    pc \in {"wd_returned", "wd_scored", "crashed"} =>
        /\ Len(workers) = Len(data_to_qid)
        /\ \A i \in 1..Len(workers) : workers[i].stage = "done"
        /\ DictKeys(wd_qids) = DictKeys(data_to_qid)
        /\ \A i \in 1..Len(data_to_qid) :
               LET mention == data_to_qid[i][1]
                   oks     == [j \in 1..Len(workers[i].log) |-> workers[i].log[j].ok]
                   alone   == WorkerRun(NewWorker(mention), wd_table, oks)
               IN  /\ DictHas(wd_qids, mention)
                   /\ DictGet(wd_qids, mention, <<>>) = alone.qids
                   /\ Len(alone.log) = Len(oks)

\* both mentions of a test set resolved and scored
C10_Witness ==
    /\ pc = "wd_scored"
    /\ Len(workers) = 2
    /\ wd_qids = << <<StrAB, <<"Q4", "Q4", "Q1", "Q2", "Q3", "Q3", "Q1", "Q3", "Q1", "Q2">> >>,
                    <<StrB, <<"Q3", "Q3", "Q3">> >> >>
    /\ Len(stdout) = 1

(***************************************************************************)
(* SpecZS: run_zero_shot from its first line to its last, the autocomplete *)
(* strategy run as one step. The timing prefixes of the report lines are   *)
(* not kept in stdout.                                                     *)
(***************************************************************************)
RECURSIVE LoadRows(_, _)
\* for row in test: (data, qid) = tuple(row.split('\t')); data_to_qid[data] = qid
LoadRows(rows, d) ==
    IF Len(rows) = 0 THEN d
    ELSE LoadRows(Tail(rows), DictSet(d, rows[1][1], rows[1][2]))

\* zs_test.csv: no row, one row, two rows, and two rows for the same mention
ZsTestFiles ==
    { <<>>,
      << <<Nginx, "Q1">> >>,
      << <<Nginx, "Q1">>, <<Redis, "Q2">> >>,
      << <<Nginx, "Q2">>, <<Nginx, "Q1">> >> }

\* what the linking backend ranks for one mention
ZsTopKEntities == { <<>>, << <<9, "Q1">> >>, << <<9, "Q2">>, <<5, "Q1">> >> }

\* autocomplete backends for the mentions of ZsTestFiles
ZsTables ==
    { << <<Nginx, <<"Q1">> >>, <<Redis, <<WrongQid, "Q2">> >> >>,
      <<>> }

\* get_wikidata_qids makes at most 1 + n + (2n-1) + (2n-1) calls for n fragments
QueriesAtMost(mention) == 5 * Len(Split(mention)) - 1

\* run_wikidata_autocomplete run from its first line to its return; oks[i] says which
\* calls of the i-th get_wikidata_qids are answered
RunWikidataAutocomplete(d2q, table, oks) ==
    MergeResults([i \in 1..Len(d2q) |->
                     WorkerRun(NewWorker(d2q[i][1]), table, oks[i]).wd_qids], <<>>)

\* the answers the calls of one run_wikidata_autocomplete may get
OkChoices(d2q) ==
    LET most == IF Len(d2q) = 0 THEN 0
                ELSE CHOOSE m \in {QueriesAtMost(d2q[i][1]) : i \in 1..Len(d2q)} :
                         \A i \in 1..Len(d2q) : QueriesAtMost(d2q[i][1]) <= m
    IN  [1..Len(d2q) -> [1..most -> BOOLEAN]]

InitZS ==
    /\ pc = "zs_start"
    /\ exc = "none"
    /\ stdout = <<>>
    /\ IdleZs
    /\ wd_table \in ZsTables
    /\ workers = Idle
    /\ wd_results = Idle
    /\ IdleComb
    /\ IdleScore
    /\ IdleFs

\* lines 208-211: zs_test.csv is not a file
ZsMissingFile ==
    /\ pc = "zs_start"
    /\ stdout' = Append(stdout, [error |-> "zs_test.csv is not a file"])
    /\ pc' = "exited"
    /\ UNCHANGED <<exc, zsVars, wdVars, combVars, scoreVars, fsVars>>

\* lines 221-223: open() raises OSError
ZsOpenFails ==
    /\ pc = "zs_start"
    /\ pc' = "exited"
    /\ UNCHANGED <<exc, stdout, zsVars, wdVars, combVars, scoreVars, fsVars>>

\* lines 213-227: the rows are loaded and the banner is printed
ZsLoad ==
    /\ pc = "zs_start"
    /\ \E rows \in ZsTestFiles : data_to_qid' = LoadRows(rows, <<>>)
    /\ stdout' = Append(stdout, [banner |-> Len(data_to_qid')])
    /\ pc' = "zs_el"
    /\ UNCHANGED <<exc, el_qids, wd_qids, elctx_qids, wdVars, combVars, scoreVars, fsVars>>

\* line 230: el_qids = run_entity_linking(data_to_qid, context='')
ZsEntityLinking ==
    /\ pc = "zs_el"
    /\ \E response \in ELResponses(Len(data_to_qid), ZsTopKEntities) :
           /\ el_qids' = RunEntityLinking(data_to_qid, response)
           /\ stdout' = EntityLinkingPrints(response)
    /\ pc' = "zs_el_score"
    /\ UNCHANGED <<exc, data_to_qid, wd_qids, elctx_qids, wdVars, combVars, scoreVars, fsVars>>

\* line 233: get_topk_accuracy(data_to_qid, el_qids)
ZsTopkEl ==
    /\ pc = "zs_el_score"
    /\ GetTopkAccuracy(data_to_qid, el_qids, "zs_wd")
    /\ UNCHANGED <<zsVars, wdVars, combVars, scoreVars, fsVars>>

\* line 236: wd_qids = run_wikidata_autocomplete(data_to_qid)
ZsAutocomplete ==
    /\ pc = "zs_wd"
    /\ \E oks \in OkChoices(data_to_qid) :
           wd_qids' = RunWikidataAutocomplete(data_to_qid, wd_table, oks)
    /\ pc' = "zs_wd_score"
    /\ UNCHANGED <<exc, stdout, data_to_qid, el_qids, elctx_qids, wdVars,
                   combVars, scoreVars, fsVars>>

\* line 239: get_topk_accuracy(data_to_qid, wd_qids)
ZsTopkWd ==
    /\ pc = "zs_wd_score"
    /\ GetTopkAccuracy(data_to_qid, wd_qids, "zs_elctx")
    /\ UNCHANGED <<zsVars, wdVars, combVars, scoreVars, fsVars>>

\* line 242: elctx_qids = run_entity_linking(data_to_qid)
ZsEntityLinkingCtx ==
    /\ pc = "zs_elctx"
    /\ \E response \in ELResponses(Len(data_to_qid), ZsTopKEntities) :
           /\ elctx_qids' = RunEntityLinking(data_to_qid, response)
           /\ stdout' = EntityLinkingPrints(response)
    /\ pc' = "zs_elctx_score"
    /\ UNCHANGED <<exc, data_to_qid, el_qids, wd_qids, wdVars, combVars, scoreVars, fsVars>>

\* line 245: get_topk_accuracy(data_to_qid, elctx_qids)
ZsTopkElCtx ==
    /\ pc = "zs_elctx_score"
    /\ GetTopkAccuracy(data_to_qid, elctx_qids, "zs_compare")
    /\ UNCHANGED <<zsVars, wdVars, combVars, scoreVars, fsVars>>

\* lines 247-249: elctx_qids[data] raises KeyError for a mention the linking result
\* has no entry for; wd_qids[data] is read only after it
ZsCompare ==
    /\ pc = "zs_compare"
    /\ IF \E p \in 1..Len(data_to_qid) : ~DictHas(elctx_qids, data_to_qid[p][1])
       THEN exc' = "KeyError" /\ pc' = "crashed"
       ELSE IF \E p \in 1..Len(data_to_qid) :
                   /\ InList(data_to_qid[p][2], DictGet(elctx_qids, data_to_qid[p][1], <<>>))
                   /\ ~DictHas(wd_qids, data_to_qid[p][1])
       THEN exc' = "KeyError" /\ pc' = "crashed"
       ELSE exc' = exc /\ pc' = "zs_done"
    /\ UNCHANGED <<stdout, zsVars, wdVars, combVars, scoreVars, fsVars>>

NextZS ==
    \/ ZsMissingFile
    \/ ZsOpenFails
    \/ ZsLoad
    \/ ZsEntityLinking
    \/ ZsTopkEl
    \/ ZsAutocomplete
    \/ ZsTopkWd
    \/ ZsEntityLinkingCtx
    \/ ZsTopkElCtx
    \/ ZsCompare

SpecZS == InitZS /\ [][NextZS]_vars

\* the positions of run_zero_shot behind the loading of the test set
ZsLoaded ==
    pc \in {"zs_el", "zs_el_score", "zs_wd", "zs_wd_score", "zs_elctx",
            "zs_elctx_score", "zs_compare", "zs_done", "crashed"}

\* C4: with a test set of zero mentions, scoring and reporting do not crash: the run
\* raises no exception (it reports 0.00 or skips the report) and goes on to its end.
C4_EmptyTestSetDoesNotCrash ==
    (ZsLoaded /\ Len(data_to_qid) = 0) => (exc = "none" /\ pc # "crashed")

\* a batched linking call failed (its error line was printed), or answered for only
\* some of the mentions
LinkingDegraded ==
    \/ \E j \in 1..Len(stdout) :
           "error" \in DOMAIN stdout[j]
    \/ /\ pc \in {"zs_el_score", "zs_wd", "zs_wd_score", "zs_elctx", "zs_elctx_score",
                  "zs_compare", "zs_done", "crashed"}
       /\ \E p \in 1..Len(data_to_qid) : ~DictHas(el_qids, data_to_qid[p][1])
    \/ /\ pc \in {"zs_elctx_score", "zs_compare", "zs_done"}
       /\ \E p \in 1..Len(data_to_qid) : ~DictHas(elctx_qids, data_to_qid[p][1])
    \/ /\ pc = "crashed" /\ exc = "KeyError"
       /\ \E p \in 1..Len(data_to_qid) : ~DictHas(elctx_qids, data_to_qid[p][1])

\* C8: a failed batched linking call, or one answered for only some of the mentions, is
\* not fatal: the run over a test set that has mentions raises no exception and goes
\* through every strategy to its end.
C8_LinkingFailureNotFatal ==
    (ZsLoaded /\ Len(data_to_qid) > 0 /\ LinkingDegraded) =>
        (exc = "none" /\ pc # "crashed")

(***************************************************************************)
(* SpecFS: run_few_shot, the counting loop one mention at a time.          *)
(* Entity ids are strings on both sides, as the test file gives them.      *)
(***************************************************************************)
RECURSIVE LoadEntities(_, _)
\* for entity_tuple in entity_cursor.fetchall(): entity_to_eid[entity] = entity_id
LoadEntities(rows, d) ==
    IF Len(rows) = 0 THEN d
    ELSE LoadEntities(Tail(rows), DictSet(d, rows[1][2], rows[1][1]))

\* the entities table: (entity_id, entity, entity_type_id, external_link)
EntityRows ==
    { << <<"1", "nginx", "t", "l">>, <<"2", "redis", "t", "l">> >>,
      << <<"1", "nginx", "t", "l">> >> }

\* fs_test.csv
FsTestFiles ==
    {<<>>}
    \cup {<< <<Nginx, e>> >> : e \in {"1", "2"}}
    \cup {<< <<Nginx, e1>>, <<Redis, e2>> >> : e1 \in {"1", "2"}, e2 \in {"1", "2"}}

\* the standardizer's ranked entity names for one mention
RankedNames ==
    {<<"nginx">>, <<"redis">>, <<"memcached">>, <<"redis", "nginx">>}

InitFS ==
    /\ pc = "fs_start"
    /\ exc = "none"
    /\ stdout = <<>>
    /\ IdleFs
    /\ IdleZs
    /\ IdleWd
    /\ IdleComb
    /\ IdleScore

\* lines 255-258: fs_test.csv is not a file
FsMissingFile ==
    /\ pc = "fs_start"
    /\ stdout' = Append(stdout, [error |-> "fs_test.csv is not a file"])
    /\ pc' = "exited"
    /\ UNCHANGED <<exc, zsVars, wdVars, combVars, scoreVars, fsVars>>

\* lines 262-266 and 275-277: the catalog is read, then open() raises OSError
FsOpenFails ==
    /\ pc = "fs_start"
    /\ \E rows \in EntityRows : entity_to_eid' = LoadEntities(rows, <<>>)
    /\ pc' = "exited"
    /\ UNCHANGED <<exc, stdout, data_to_eid, tech_sim_scores, num_correct,
                   zsVars, wdVars, combVars, scoreVars>>

\* lines 262-274: the catalog and the test set are read
FsLoad ==
    /\ pc = "fs_start"
    /\ \E rows \in EntityRows : entity_to_eid' = LoadEntities(rows, <<>>)
    /\ \E rows \in FsTestFiles : data_to_eid' = LoadRows(rows, <<>>)
    /\ pc' = "fs_standardize"
    /\ UNCHANGED <<exc, stdout, tech_sim_scores, num_correct,
                   zsVars, wdVars, combVars, scoreVars>>

\* lines 279-287: the standardizer ranks entity names for every mention, by position
FsStandardize ==
    /\ pc = "fs_standardize"
    /\ tech_sim_scores' \in [1..Len(data_to_eid) -> RankedNames]
    /\ num_correct' = 0
    /\ pos' = 0
    /\ pc' = "fs_loop"
    /\ UNCHANGED <<exc, stdout, entity_to_eid, data_to_eid, zsVars, wdVars, combVars,
                   alg_qids, total_mentions, topk>>

\* lines 293-294: if correct_eid != predicted_eid: num_correct += 1
Counted(correct_eid, predicted_eid) ==
    IF correct_eid # predicted_eid THEN 1 ELSE 0

\* one iteration of the loop of lines 288-294
FsCountMention ==
    /\ pc = "fs_loop"
    /\ pos < Len(data_to_eid) /\ pos < Len(tech_sim_scores)
    /\ LET mention       == data_to_eid[pos + 1][1]
           entity        == tech_sim_scores[pos + 1]
           correct_eid   == DictGet(data_to_eid, mention, None)
           predicted_eid == DictGet(entity_to_eid, entity[1], None)
       IN  num_correct' = num_correct + Counted(correct_eid, predicted_eid)
    /\ pos' = pos + 1
    /\ UNCHANGED <<ctlVars, entity_to_eid, data_to_eid, tech_sim_scores, zsVars, wdVars,
                   combVars, alg_qids, total_mentions, topk>>

\* lines 295-298: the banner and the accuracy; the division raises ZeroDivisionError
\* when there is no mention
FsPrint ==
    /\ pc = "fs_loop"
    /\ ~(pos < Len(data_to_eid) /\ pos < Len(tech_sim_scores))
    /\ IF Len(data_to_eid) = 0
       THEN /\ exc' = "ZeroDivisionError"
            /\ pc' = "crashed"
            /\ stdout' = Append(stdout, [banner |-> 0])
       ELSE /\ stdout' = stdout \o << [banner |-> Len(data_to_eid)],
                                      [accuracy |-> Fmt2(num_correct, Len(data_to_eid))] >>
            /\ pc' = "fs_done"
            /\ UNCHANGED exc
    /\ UNCHANGED <<fsVars, zsVars, wdVars, combVars, scoreVars>>

NextFS ==
    \/ FsMissingFile
    \/ FsOpenFails
    \/ FsLoad
    \/ FsStandardize
    \/ FsCountMention
    \/ FsPrint

SpecFS == InitFS /\ [][NextFS]_vars

\* the mentions whose top predicted name the table translates to the correct id
FsHits ==
    {p \in 1..Len(data_to_eid) :
        /\ DictHas(entity_to_eid, tech_sim_scores[p][1])
        /\ DictGet(entity_to_eid, tech_sim_scores[p][1], None) = data_to_eid[p][2]}

\* C9: the accuracy numerator of run_few_shot is the number of mentions whose top
\* predicted name translates, through the name -> id table, to the correct id; a
\* mention whose predicted name is not in the table is no hit.
C9_NumeratorCountsHits ==
    pc = "fs_done" =>
        /\ num_correct = Cardinality(FsHits)
        /\ IsRounded(stdout[Len(stdout)].accuracy, Cardinality(FsHits), Len(data_to_eid))

====
